---- MODULE Spec2Model ----
(***************************************************************************)
(* Model of the receipt backend (sobee-dev/invoice-backend): the Receipt   *)
(* and ReceiptItem tables, the Business table, and the request handlers of *)
(* ReceiptViewSet and BusinessViewSet together with the serializer, model  *)
(* and utility code they call.                                             *)
(*                                                                         *)
(* Units.  Money is held in cents (DecimalField decimal_places=2), a tax   *)
(* rate in 1/10000 (decimal_places=4), a quantity in 1/1000                *)
(* (decimal_places=3).  A product quantity * unit_price is therefore in    *)
(* 1/100000.                                                               *)
(*                                                                         *)
(* A request payload is a record that carries every key; a key the client  *)
(* did not send holds Absent (numbers), 0 (ids, receipt numbers),          *)
(* "absent" (strings) or present = FALSE (the item list).                  *)
(***************************************************************************)
EXTENDS Integers, Sequences, FiniteSets, TLC

\* ---------------------------------------------------------------- bounds
MaxReceipts == 2
MaxTime == 3
MaxBatch == 2

\* ------------------------------------------------------- program constants
\* Decimal('0.01'), the tolerance of both integrity checks, in cents.
Tolerance == 1
\* quantity: decimal_places=3
QtyScale == 1000
\* tax_rate: decimal_places=4
RateScale == 10000

Absent == 0 - 1
NoBusiness == 0
Null == 0

Users == {"A", "B"}
IDs == 1..MaxReceipts
BizIds == 1..Cardinality(Users)

\* SyncStatus (receipts/models.py)
PENDING == "pending"
SYNCED == "synced"
ERROR == "error"
DELETED == "deleted"

VARIABLES
    businesses,   \* Business table: business id -> row
    receipts,     \* Receipt table: receipt id -> row
    items,        \* ReceiptItem table: receipt id -> rows, in insertion order
    now,          \* the clock: the stamp the next committed write gets
    sync,         \* the bulk_sync request being handled: its position and its report
    last,         \* the record the bulk_sync loop handled last, and how it ended
    resp,         \* the last response (or the last model method called)
    txn,          \* the transaction a bulk_sync turn has open: its uncommitted writes
    rd,           \* the get_changes request being served on another connection
    hist,         \* receipt id -> the versions of the receipt committed so far
    creating      \* the create requests in flight: slot -> how far each has come

vars == <<businesses, receipts, items, now, sync, last, resp, txn, rd, hist, creating>>

\* ------------------------------------------------------------ arithmetic
Abs(x) == IF x < 0 THEN 0 - x ELSE x

\* dict.get(key, default)
Get(v, default) == IF v = Absent THEN default ELSE v

\* Decimal.quantize(Decimal('0.01')) of n/d cents, n >= 0: the decimal context's
\* default rounding, ROUND_HALF_EVEN.
Quantize(n, d) ==
    LET q == n \div d
        r == n % d
    IN  IF 2 * r < d THEN q
        ELSE IF 2 * r > d THEN q + 1
        ELSE IF q % 2 = 0 THEN q ELSE q + 1

\* sum(Decimal(quantity) * Decimal(unit_price) for item in items), in 1/100000
RECURSIVE calculated_subtotal(_)
calculated_subtotal(its) ==
    IF its = <<>> THEN 0
    ELSE Head(its).quantity * Head(its).unit_price + calculated_subtotal(Tail(its))

\* ------------------------------------------------------------- payloads
NoItems == [present |-> FALSE, list |-> <<>>]
ItemList(l) == [present |-> TRUE, list |-> l]

\* A key the request did not carry.
Has(v) == v # Absent

\* The database as one value, so that a handler is a function of it.
DB == [businesses |-> businesses, receipts |-> receipts, items |-> items, now |-> now]

\* Business.objects.filter(owner=user).first(): the business id, NoBusiness for None.
\* (owner is a OneToOneField: at most one row matches.)
user_business(db, u) ==
    IF \E b \in DOMAIN db.businesses : db.businesses[b].owner = u
    THEN CHOOSE b \in DOMAIN db.businesses : db.businesses[b].owner = u
    ELSE NoBusiness

\* ------------------------------------------------- ReceiptDetailSerializer
\* to_internal_value: the keys whose field validation fails.  Without
\* partial=True every model field with no default is required, and so is the
\* declared nested field items; business is a PrimaryKeyRelatedField over
\* Business.objects.all(); tax_rate carries MaxValueValidator(1).
\* (receipt_date and customer_name are taken as sent and well formed.)
field_errors(db, data, partial) ==
    {f \in {"business", "receipt_number", "subtotal", "tax_rate", "grand_total", "items"} :
        /\ ~partial
        /\ \/ f = "business" /\ data.business = NoBusiness
           \/ f = "receipt_number" /\ data.receipt_number = 0
           \/ f = "subtotal" /\ ~Has(data.subtotal)
           \/ f = "tax_rate" /\ ~Has(data.tax_rate)
           \/ f = "grand_total" /\ ~Has(data.grand_total)
           \/ f = "items" /\ ~data.items.present}
    \cup {f \in {"business"} : data.business # NoBusiness /\ data.business \notin DOMAIN db.businesses}
    \cup {f \in {"tax_rate"} : Has(data.tax_rate) /\ data.tax_rate > RateScale}

\* Meta.validators: UniqueTogetherValidator(fields=['business', 'receipt_number']).
\* On an update the missing one of the two is read from the instance and the
\* instance itself is excluded from the queryset.
unique_together_fails(db, data, instance) ==
    LET b == IF data.business # NoBusiness THEN data.business
             ELSE IF instance # 0 THEN db.receipts[instance].business ELSE NoBusiness
        n == IF data.receipt_number # 0 THEN data.receipt_number
             ELSE IF instance # 0 THEN db.receipts[instance].receipt_number ELSE 0
    IN  \E r \in DOMAIN db.receipts :
            /\ r # instance
            /\ db.receipts[r].business = b
            /\ db.receipts[r].receipt_number = n

\* validate with a strict tolerance: a total one cent away is rejected too.
validate_strict(data) ==
    LET its == IF data.items.present THEN data.items.list ELSE <<>>
        subtotal == Get(data.subtotal, 0)
        expected_grand_total == subtotal + Quantize(subtotal * Get(data.tax_rate, 0), RateScale)
                                  - Get(data.discount, 0)
    IN  IF Abs(calculated_subtotal(its) - subtotal * QtyScale) >= Tolerance * QtyScale
        THEN "subtotal"
        ELSE IF Abs(expected_grand_total - Get(data.grand_total, 0)) >= Tolerance
        THEN "grand_total"
        ELSE "ok"

\* ReceiptDetailSerializer.validate(data): data holds the submitted keys only.
\* The result is the key of the ValidationError raised, "ok" when data is returned.
validate(data) ==
    LET its == IF data.items.present THEN data.items.list ELSE <<>>
        subtotal == Get(data.subtotal, 0)
        tax_rate == Get(data.tax_rate, 0)
        discount == Get(data.discount, 0)
        grand_total == Get(data.grand_total, 0)
        tax_amount == Quantize(subtotal * tax_rate, RateScale)
        expected_grand_total == subtotal + tax_amount - discount
    IN  IF Abs(calculated_subtotal(its) - subtotal * QtyScale) > Tolerance * QtyScale
        THEN "subtotal"
        ELSE IF Abs(expected_grand_total - grand_total) > Tolerance
        THEN "grand_total"
        ELSE "ok"

\* serializer.is_valid(): field validation, then the class validators, then
\* validate().  The result is serializer.errors as a set of keys.
is_valid_errors(db, data, instance, partial) ==
    IF field_errors(db, data, partial) # {} THEN field_errors(db, data, partial)
    ELSE IF unique_together_fails(db, data, instance) THEN {"non_field_errors"}
    ELSE IF validate(data) # "ok" THEN {validate(data)}
    ELSE {}

\* ------------------------------------------------------------ the tables
\* f with key k bound to v (an insert or an update of row k).
Put(f, k, v) == [x \in DOMAIN f \cup {k} |-> IF x = k THEN v ELSE f[x]]

\* A step inside a handler: it went through (ok) and left db, or it raised exc
\* with db as the statements before it left it.
Done(db) == [ok |-> TRUE, db |-> db, exc |-> "none"]
Raised(db, e) == [ok |-> FALSE, db |-> db, exc |-> e]

\* Meta.read_only_fields = ['id', 'created_at', 'updated_at', 'server_id'] with
\* every key of the payload taken as writable: a submitted server_id stays.
read_only_kept(data) == data

\* Meta.read_only_fields = ['id', 'created_at', 'updated_at', 'server_id']: a key
\* of the payload that names a read-only field never reaches validated_data.
read_only_dropped(data) == [data EXCEPT !.server_id = Absent]

\* The row Receipt(**validated_data) makes: tax_amount and discount default to
\* 0.00, is_paid to False, sync_status to PENDING; server_id is read-only in the
\* serializer and so never in validated_data; created_at/updated_at are stamped.
new_row(db, data, business, sync_status) ==
    [business |-> business,
     receipt_number |-> data.receipt_number,
     subtotal |-> data.subtotal,
     tax_rate |-> data.tax_rate,
     tax_amount |-> Get(data.tax_amount, 0),
     discount |-> Get(data.discount, 0),
     grand_total |-> data.grand_total,
     is_paid |-> FALSE,
     paid_at |-> Null,
     server_id |-> Get(read_only_dropped(data).server_id, Null),
     sync_status |-> sync_status,
     updated_at |-> db.now,
     deleted_at |-> Get(data.deleted_at, Null)]

\* The attributes set with a sync_status the payload submitted kept in place of
\* the keyword argument of save().
set_attrs_submitted_status(row, data, business, sync_status) ==
    [row EXCEPT
        !.business = business,
        !.receipt_number = IF data.receipt_number # 0 THEN data.receipt_number ELSE @,
        !.subtotal = Get(data.subtotal, @),
        !.tax_rate = Get(data.tax_rate, @),
        !.tax_amount = Get(data.tax_amount, @),
        !.discount = Get(data.discount, @),
        !.grand_total = Get(data.grand_total, @),
        !.deleted_at = Get(data.deleted_at, @),
        !.server_id = Get(read_only_dropped(data).server_id, @),
        !.sync_status = IF data.sync_status # "absent" THEN data.sync_status ELSE sync_status]

\* for attr, value in validated_data.items(): setattr(instance, attr, value),
\* with the keyword arguments of save() laid over the validated data.
set_attrs(row, data, business, sync_status) ==
    [row EXCEPT
        !.business = business,
        !.receipt_number = IF data.receipt_number # 0 THEN data.receipt_number ELSE @,
        !.subtotal = Get(data.subtotal, @),
        !.tax_rate = Get(data.tax_rate, @),
        !.tax_amount = Get(data.tax_amount, @),
        !.discount = Get(data.discount, @),
        !.grand_total = Get(data.grand_total, @),
        !.deleted_at = Get(data.deleted_at, @),
        !.server_id = Get(read_only_dropped(data).server_id, @),
        !.sync_status = sync_status]

\* The table with its NOT NULL constraint only: no unique_together.
integrity_error_not_null_only(db, id, row) == row.business = NoBusiness

\* The table's constraints on writing row as receipt id: business is NOT NULL,
\* unique_together (business, receipt_number).
integrity_error(db, id, row) ==
    \/ row.business = NoBusiness
    \/ \E r \in DOMAIN db.receipts :
          /\ r # id
          /\ db.receipts[r].business = row.business
          /\ db.receipts[r].receipt_number = row.receipt_number

\* A write that no constraint of the table can refuse.
save_row_unchecked(db, id, row) ==
    Done([db EXCEPT !.receipts = Put(@, id, [row EXCEPT !.updated_at = db.now]),
                    !.items = IF id \in DOMAIN @ THEN @ ELSE Put(@, id, <<>>)])

\* instance.save() / Receipt.objects.create(): updated_at is auto_now.
save_row(db, id, row) ==
    IF integrity_error(db, id, row) THEN Raised(db, "IntegrityError")
    ELSE Done([db EXCEPT !.receipts = Put(@, id, [row EXCEPT !.updated_at = db.now]),
                         !.items = IF id \in DOMAIN @ THEN @ ELSE Put(@, id, <<>>)])

\* ReceiptItem.objects.create(receipt=receipt, **item_data)
item_row(item) == [quantity |-> item.quantity, unit_price |-> item.unit_price, order |-> item.order]

RECURSIVE create_items(_, _, _)
create_items(db, id, its) ==
    IF its = <<>> THEN Done(db)
    ELSE create_items([db EXCEPT !.items[id] = Append(@, item_row(Head(its)))], id, Tail(its))

\* uuid.uuid4(), the default of Receipt.id: an id no row has.  Ids are
\* interchangeable, so the least unused one stands for it.
fresh_id(db) ==
    IF IDs \subseteq DOMAIN db.receipts THEN 0
    ELSE CHOOSE i \in IDs \ DOMAIN db.receipts : \A j \in IDs \ DOMAIN db.receipts : i <= j

\* ReceiptDetailSerializer.create(validated_data); id is the uuid4 default the
\* new row gets.
serializer_create(db, id, data, business, sync_status) ==
    LET saved == save_row(db, id, new_row(db, data, business, sync_status))
    IN  IF ~saved.ok THEN saved
        ELSE create_items(saved.db, id, data.items.list)

\* ReceiptDetailSerializer.update(instance, validated_data)
serializer_update(db, id, data, business, sync_status) ==
    LET saved == save_row(db, id, set_attrs(db.receipts[id], data, business, sync_status))
    IN  IF ~saved.ok \/ ~data.items.present THEN saved
        ELSE create_items([saved.db EXCEPT !.items[id] = <<>>], id, data.items.list)

\* ------------------------------------------------ ReceiptViewSet.bulk_sync
\* A delete that removes nothing.
delete_items_kept(db, id) == db

\* receipt.items.all().delete()
delete_items(db, id) == [db EXCEPT !.items[id] = <<>>]

\* receipt.items.create(description=..., quantity=..., unitPrice=..., total=...):
\* ReceiptItem has no field unitPrice (the field is unit_price), so the model's
\* constructor raises TypeError before anything is written.
items_create(db, id, item) == Raised(db, "TypeError")

\* for item in items_data: receipt.items.create(...)
RECURSIVE recreate_items(_, _, _)
recreate_items(db, id, its) ==
    IF its = <<>> THEN Done(db)
    ELSE LET r == items_create(db, id, Head(its))
         IN  IF ~r.ok THEN r ELSE recreate_items(r.db, id, Tail(its))

\* The block without a transaction: what it wrote before raising stays.
atomic_no_rollback(before, r) ==
    IF r.ok THEN Done([r.db EXCEPT !.now = @ + 1])
    ELSE Raised(r.db, r.exc)

\* with transaction.atomic(): the block's writes are committed together, or,
\* when it raises, none of them is.  A commit moves the clock on.
atomic(before, r) ==
    IF r.ok THEN Done([r.db EXCEPT !.now = @ + 1])
    ELSE Raised(before, r.exc)

\* One turn of the loop (lines 74-109) on a record that is a dict.  outcome is
\* the counter the turn adds to: "created", "updated", or "errors".
sync_record(db, u, data) ==
    LET items_data == IF data.items.present THEN data.items.list ELSE <<>>
        popped == [data EXCEPT !.items = NoItems]
        receipt_id == data.id
        instance == IF receipt_id \in DOMAIN db.receipts THEN receipt_id ELSE 0
        errs == is_valid_errors(db, popped, instance, instance # 0)
        biz == user_business(db, u)
        rid == IF instance # 0 THEN instance ELSE fresh_id(db)
        saved == IF instance # 0
                 THEN serializer_update(db, instance, popped, biz, SYNCED)
                 ELSE serializer_create(db, rid, popped, biz, SYNCED)
        tx == atomic(db, IF ~saved.ok THEN saved
                         ELSE recreate_items(delete_items(saved.db, rid), rid, items_data))
    IN  IF errs # {}
        THEN [db |-> db, outcome |-> "errors", id |-> receipt_id, error |-> "invalid", detail |-> errs]
        ELSE IF ~tx.ok
        THEN [db |-> tx.db, outcome |-> "errors", id |-> receipt_id, error |-> tx.exc, detail |-> {}]
        ELSE [db |-> tx.db, outcome |-> IF instance # 0 THEN "updated" ELSE "created",
              id |-> receipt_id, error |-> "none", detail |-> {}]

\* items_data = data.pop('items', []): the item list a record submitted, [] when
\* it has no items key.
submitted_items(data) == IF data.items.present THEN data.items.list ELSE <<>>

\* results = {"created": 0, "updated": 0, "errors": []}
NoReport == [created |-> 0, updated |-> 0, errors |-> <<>>]

\* results[...] += 1 / results["errors"].append({"id": receipt_id, ...}) for a
\* turn that ended as r.
tally(report, r) ==
    [created |-> report.created + (IF r.outcome = "created" THEN 1 ELSE 0),
     updated |-> report.updated + (IF r.outcome = "updated" THEN 1 ELSE 0),
     errors |-> IF r.outcome = "errors" THEN Append(report.errors, r.id) ELSE report.errors]

\* The loop over a whole batch: the tables it leaves and the response.  An
\* element that is not a dict raises outside the try and ends the request (500).
RECURSIVE sync_loop(_, _, _, _)
sync_loop(db, report, u, batch) ==
    IF batch = <<>> THEN [db |-> db, status |-> 200, report |-> report]
    ELSE IF ~Head(batch).dict THEN [db |-> db, status |-> 500, report |-> NoReport]
    ELSE LET r == sync_record(db, u, Head(batch))
         IN  sync_loop(r.db, tally(report, r), u, Tail(batch))

\* bulk_sync on a request body that is a list.
bulk_sync(db, u, batch) == sync_loop(db, NoReport, u, batch)

\* ---------------------------------------------------- the other handlers
\* get_queryset(): Receipt.objects.filter(business__owner=user,
\* deleted_at__is_null=True).  is_null is no lookup of Django's ORM (the lookup
\* is isnull), so filter() raises FieldError and no queryset is returned.
get_queryset(db, u) == [ok |-> FALSE, ids |-> {}]

\* get_object(): the row of get_queryset() with this pk; Http404 when none.
get_object(db, u, pk) ==
    LET q == get_queryset(db, u)
    IN  IF ~q.ok THEN [status |-> 500, id |-> 0]
        ELSE IF pk \in q.ids THEN [status |-> 200, id |-> pk]
        ELSE [status |-> 404, id |-> 0]

\* Receipt.soft_delete()
soft_delete(db, id) ==
    [db EXCEPT !.receipts[id].deleted_at = db.now,
               !.receipts[id].sync_status = DELETED,
               !.receipts[id].updated_at = db.now,
               !.now = @ + 1]

\* Receipt.mark_as_paid()
mark_as_paid(db, id) ==
    [db EXCEPT !.receipts[id].is_paid = TRUE,
               !.receipts[id].paid_at = db.now,
               !.receipts[id].updated_at = db.now,
               !.now = @ + 1]

\* A change feed that leaves soft-deleted receipts out.
changes_not_deleted(db, u, last_sync) ==
    {r \in DOMAIN db.receipts :
        /\ db.businesses[db.receipts[r].business].owner = u
        /\ db.receipts[r].updated_at > last_sync
        /\ db.receipts[r].deleted_at = Null}

\* get_changes: the caller's receipts with updated_at > last_sync (no filter
\* on deleted_at).
changes(db, u, last_sync) ==
    {r \in DOMAIN db.receipts :
        /\ db.businesses[db.receipts[r].business].owner = u
        /\ db.receipts[r].updated_at > last_sync}

\* get_changes with a default watermark: without last_sync it answers with
\* everything the caller owns, as if since the beginning of time.
get_changes_since_epoch(db, u, last_sync) ==
    [status |-> 200, ids |-> changes(db, u, IF last_sync = Absent THEN 0 ELSE last_sync)]

\* get_changes: last_sync = request.query_params.get('last_sync'); 400 with an
\* error body when it is missing (or empty); else the serialized changes.
get_changes(db, u, last_sync) ==
    IF last_sync = Absent THEN [status |-> 400, ids |-> {}]
    ELSE [status |-> 200, ids |-> changes(db, u, last_sync)]

\* ReceiptItem.Meta.ordering = ['order', 'id']: the orders in which the rows of
\* a receipt may be read.  Rows are read by order; rows of equal order by id, a
\* uuid4, which is any order.
display_orders(rows) ==
    { [i \in 1..Len(rows) |-> rows[p[i]]] : p \in
        { q \in Permutations(1..Len(rows)) :
            \A i, j \in 1..Len(rows) : i < j => rows[q[i]].order <= rows[q[j]].order } }

\* --------------------------------------------------------------- inputs
\* The payloads the requests are drawn from.
Data(id, business, receipt_number, subtotal, tax_rate, tax_amount, discount, grand_total, its) ==
    [dict |-> TRUE, id |-> id, business |-> business, receipt_number |-> receipt_number,
     subtotal |-> subtotal, tax_rate |-> tax_rate, tax_amount |-> tax_amount,
     discount |-> discount, grand_total |-> grand_total, items |-> its,
     sync_status |-> "absent", deleted_at |-> Absent, server_id |-> Absent]

\* A payload with no key at all.
Empty == Data(0, NoBusiness, 0, Absent, Absent, Absent, Absent, Absent, NoItems)

\* A batch element that is not a JSON object (a string, a number, null, a list).
NotADict == [Empty EXCEPT !.dict = FALSE]

\* Two lines: 2 x 10.00 and 1 x 5.00.
TwoItems == << [quantity |-> 2 * QtyScale, unit_price |-> 1000, order |-> 0],
               [quantity |-> 1 * QtyScale, unit_price |-> 500, order |-> 1] >>

\* A receipt of TwoItems at rate 0.10 and no discount, for business b, with
\* the subtotal and grand total given; the client sends a server_id of 7 along.
Receipt2(b, subtotal, grand_total) ==
    [Data(0, b, 1, subtotal, 1000, 250, 0, grand_total, ItemList(TwoItems))
        EXCEPT !.server_id = 7]

\* Create: grand totals 27.50, 27.49 and 27.48 on subtotal 25.00, a subtotal
\* of 25.02, and a payload without items.
CreatePayloads ==
    { Receipt2(b, 2500, g) : b \in BizIds, g \in {2750, 2749, 2748} }
    \cup { Receipt2(1, 2502, 2752), [Receipt2(1, 2500, 2750) EXCEPT !.items = NoItems] }

\* What a bulk-sync record carries besides its id: nothing; items only; a whole
\* consistent receipt; a new tax rate with an empty item list and sync_status
\* pending and a server_id; a grand total only.
SyncBodies ==
    { Empty,
      [Empty EXCEPT !.items = ItemList(TwoItems)],
      Receipt2(1, 2500, 2750),
      [Empty EXCEPT !.tax_rate = 1000, !.items = ItemList(<<>>), !.sync_status = PENDING,
                    !.server_id = 7],
      [Empty EXCEPT !.grand_total = 2750] }

SyncRecords == { [b EXCEPT !.id = i] : b \in SyncBodies, i \in IDs } \cup {NotADict}

\* -------------------------------------------------------------- responses
Response(op, u, status) ==
    [op |-> op, user |-> u, status |-> status, created |-> 0, updated |-> 0,
     errors |-> <<>>, n |-> 0, ids |-> {}, detail |-> {}, data |-> Empty, arg |-> 0]

NoSync == [active |-> FALSE, user |-> "none", created |-> 0, updated |-> 0, errors |-> <<>>, n |-> 0]

NoLast == [data |-> Empty, outcome |-> "none", error |-> "none", detail |-> {}]

\* No transaction is open on the writer's connection.
NoDB == [businesses |-> <<>>, receipts |-> <<>>, items |-> <<>>, now |-> 0]
NoTx == [active |-> FALSE, stage |-> "none", data |-> Empty, id |-> 0, todo |-> <<>>,
         db |-> NoDB, exc |-> "none"]

\* The two connections a create request may arrive on, and a connection with
\* no create request in flight.
Slots == {"first", "second"}
NoCreate == [stage |-> "idle", data |-> Empty]

\* No get_changes request is being served.
NoRead == [active |-> FALSE, user |-> "none", rows |-> <<>>, todo |-> <<>>, obs |-> <<>>,
           during |-> {}]

\* The committed versions of each receipt, in commit order: a version is added
\* when a commit leaves the receipt's row or items different from the last one.
record_versions(h, rs, its) ==
    [id \in DOMAIN rs |->
        LET v == [row |-> rs[id], items |-> its[id]]
        IN  IF id \notin DOMAIN h THEN <<v>>
            ELSE IF h[id][Len(h[id])] = v THEN h[id]
            ELSE Append(h[id], v)]

\* The tables and the clock take the values of db.
Commit(db) ==
    /\ businesses' = db.businesses
    /\ receipts' = db.receipts
    /\ items' = db.items
    /\ now' = db.now
    /\ hist' = record_versions(hist, db.receipts, db.items)

Init ==
    /\ businesses = <<>>
    /\ receipts = <<>>
    /\ items = <<>>
    /\ now = 1
    /\ sync = NoSync
    /\ last = NoLast
    /\ resp = Response("none", "none", 0)
    /\ txn = NoTx
    /\ rd = NoRead
    /\ hist = <<>>
    /\ creating = [s \in Slots |-> NoCreate]

\* A request is served when no bulk_sync is under way, and while the clock
\* has stamps left.
Idle == ~sync.active /\ now <= MaxTime

\* ------------------------------------------------------------- Business
\* A Business row is added through the admin site (BusinessAdmin): Business.save()
\* runs full_clean(), whose validate_unique() rejects a second row for the
\* owner of a OneToOneField.  sync_status defaults to PENDING, server_id to null.
AdminAddBusiness(u) ==
    /\ ~sync.active
    /\ IF user_business(DB, u) # NoBusiness
       THEN /\ UNCHANGED businesses
            /\ resp' = Response("admin_add_business", u, 400)
       ELSE /\ LET b == CHOOSE i \in BizIds \ DOMAIN businesses :
                            \A j \in BizIds \ DOMAIN businesses : i <= j
               IN  businesses' = Put(businesses, b,
                       [owner |-> u, name |-> "old", sync_status |-> PENDING,
                        server_id |-> Null])
            /\ resp' = Response("admin_add_business", u, 201)
    /\ UNCHANGED <<receipts, items, now, hist, sync, last, txn, rd, creating>>

\* ------------------------------------------------------- ReceiptViewSet
\* CreateModelMixin.create with perform_create (@transaction.atomic):
\* serializer.is_valid(raise_exception=True); serializer.save(sync_status=SYNCED).
\* The caller is not consulted: business is a key of the payload.
Create(data) ==
    /\ Idle
    /\ fresh_id(DB) # 0
    /\ LET errs == is_valid_errors(DB, data, 0, FALSE)
           id == fresh_id(DB)
           tx == atomic(DB, serializer_create(DB, id, data, data.business, SYNCED))
       IN  IF errs # {}
           THEN /\ resp' = [Response("create", "any", 400) EXCEPT !.detail = errs, !.data = data]
                /\ UNCHANGED <<businesses, receipts, items, now, hist>>
           ELSE /\ Commit(tx.db)
                /\ resp' = [Response("create", "any", IF tx.ok THEN 201 ELSE 500)
                              EXCEPT !.ids = IF tx.ok THEN {id} ELSE {}, !.data = data]
    /\ UNCHANGED <<sync, last, txn, rd, creating>>

\* The model method, called on a stored receipt by code that holds the
\* instance.
SoftDelete(id) ==
    /\ Idle
    /\ id \in DOMAIN receipts
    /\ Commit(soft_delete(DB, id))
    /\ resp' = [Response("soft_delete", "none", 0) EXCEPT !.ids = {id}]
    /\ UNCHANGED <<sync, last, txn, rd, creating>>

\* bulk_sync, lines 66-72: a body that is no list is answered 400; else the
\* report starts empty and the loop begins.
BulkSyncBegin(u, is_list) ==
    /\ Idle
    /\ IF is_list
       THEN /\ sync' = [NoSync EXCEPT !.active = TRUE, !.user = u]
            /\ resp' = Response("bulk_sync", u, 0)
       ELSE /\ resp' = Response("bulk_sync", u, 400)
            /\ UNCHANGED sync
    /\ last' = NoLast
    /\ UNCHANGED <<businesses, receipts, items, now, hist, txn, rd, creating>>

\* One turn of the loop, on the batch's next element.  Each turn reads its own
\* element only, so the element is drawn when its turn comes.
\* data.pop('items', []) stands before the try: on an element that is not a dict it
\* raises (AttributeError, or TypeError on a list), the handler ends and the
\* request is answered 500 without a report.
BulkSyncRecord(data) ==
    /\ UNCHANGED <<txn, rd, creating>>
    /\ sync.active
    /\ sync.n < MaxBatch
    /\ now <= MaxTime
    /\ IF ~data.dict
       THEN /\ resp' = [Response("bulk_sync", sync.user, 500) EXCEPT !.n = sync.n + 1]
            /\ sync' = NoSync
            /\ last' = [NoLast EXCEPT !.data = data, !.outcome = "raised"]
            /\ UNCHANGED <<businesses, receipts, items, now, hist>>
       ELSE LET r == sync_record(DB, sync.user, data)
            IN  /\ Commit(r.db)
                /\ sync' = [sync EXCEPT
                       !.n = @ + 1,
                       !.created = tally(sync, r).created,
                       !.updated = tally(sync, r).updated,
                       !.errors = tally(sync, r).errors]
                /\ last' = [data |-> data, outcome |-> r.outcome, error |-> r.error,
                            detail |-> r.detail]
                /\ UNCHANGED resp

\* return Response(results, status=200) when the batch is exhausted.
BulkSyncEnd ==
    /\ sync.active
    /\ resp' = [Response("bulk_sync", sync.user, 200) EXCEPT
                   !.created = sync.created, !.updated = sync.updated,
                   !.errors = sync.errors, !.n = sync.n]
    /\ sync' = NoSync
    /\ last' = NoLast
    /\ UNCHANGED <<businesses, receipts, items, now, hist, txn, rd, creating>>

\* The requests served one at a time, each a single step.
Next ==
    \/ \E u \in Users : AdminAddBusiness(u)
    \/ \E data \in CreatePayloads : Create(data)
    \/ \E id \in IDs : SoftDelete(id)
    \/ \E u \in Users, is_list \in BOOLEAN : BulkSyncBegin(u, is_list)
    \/ \E data \in SyncRecords : BulkSyncRecord(data)
    \/ BulkSyncEnd

Spec == Init /\ [][Next]_vars

\* ------------------------------------------- bulk_sync against a reader
\* The same handlers with the turn of the bulk_sync loop taken statement by
\* statement, while get_changes is served on another connection.

\* The open transaction t has written to receipt id: its row or its items
\* differ from the committed ones.
dirty(db, t, id) ==
    /\ t.active
    /\ id \in DOMAIN t.db.receipts
    /\ \/ id \notin DOMAIN db.receipts
       \/ t.db.receipts[id] # db.receipts[id]
       \/ t.db.items[id] # db.items[id]

\* The block's writes read by other connections as they are made.
visible_uncommitted(db, t) == IF t.active THEN t.db ELSE db

\* What another connection reads while the block under transaction.atomic()
\* runs: the committed tables, not the block's writes.
visible(db, t) == db

\* The turn on this record gets as far as the transaction block.
opens_txn(db, data) ==
    /\ data.dict
    /\ is_valid_errors(db, [data EXCEPT !.items = NoItems],
                       IF data.id \in DOMAIN db.receipts THEN data.id ELSE 0,
                       data.id \in DOMAIN db.receipts) = {}

\* A turn that ends before the transaction block: the record is not a dict, or
\* is invalid.
TurnWithoutTxn(data) ==
    /\ ~txn.active
    /\ ~opens_txn(DB, data)
    /\ BulkSyncRecord(data)

\* Lines 75-89: items popped, the instance looked up, the serializer valid; the
\* transaction block is entered.
TxnBegin(data) ==
    /\ sync.active /\ ~txn.active
    /\ sync.n < MaxBatch
    /\ now <= MaxTime
    /\ opens_txn(DB, data)
    /\ txn' = [active |-> TRUE, stage |-> "save", data |-> data,
               id |-> IF data.id \in DOMAIN receipts THEN data.id ELSE fresh_id(DB),
               todo |-> submitted_items(data), db |-> DB, exc |-> "none"]
    /\ UNCHANGED <<businesses, receipts, items, now, hist, sync, last, resp, rd, creating>>

\* Line 91: receipt = serializer.save(sync_status=SYNCED, business=user_business)
TxnSave ==
    /\ txn.active /\ txn.stage = "save"
    /\ LET popped == [txn.data EXCEPT !.items = NoItems]
           biz == user_business(txn.db, sync.user)
           saved == IF txn.data.id \in DOMAIN txn.db.receipts
                    THEN serializer_update(txn.db, txn.id, popped, biz, SYNCED)
                    ELSE serializer_create(txn.db, txn.id, popped, biz, SYNCED)
       IN  txn' = [txn EXCEPT !.db = saved.db, !.exc = saved.exc,
                              !.stage = IF saved.ok THEN "delete" ELSE "raised"]
    /\ UNCHANGED <<businesses, receipts, items, now, hist, sync, last, resp, rd, creating>>

\* Line 94: receipt.items.all().delete()
TxnDeleteItems ==
    /\ txn.active /\ txn.stage = "delete"
    /\ txn' = [txn EXCEPT !.db = delete_items(txn.db, txn.id),
                          !.stage = IF txn.todo = <<>> THEN "done" ELSE "create"]
    /\ UNCHANGED <<businesses, receipts, items, now, hist, sync, last, resp, rd, creating>>

\* Lines 95-101: one receipt.items.create(...) of the for loop.
TxnCreateItem ==
    /\ txn.active /\ txn.stage = "create"
    /\ LET r == items_create(txn.db, txn.id, Head(txn.todo))
       IN  txn' = [txn EXCEPT !.db = r.db, !.exc = r.exc, !.todo = Tail(@),
                              !.stage = IF ~r.ok THEN "raised"
                                        ELSE IF Tail(txn.todo) = <<>> THEN "done"
                                        ELSE "create"]
    /\ UNCHANGED <<businesses, receipts, items, now, hist, sync, last, resp, rd, creating>>

\* The block is left: its writes are committed, or rolled back when it raised;
\* then lines 103-109 count the record.
TxnEnd ==
    /\ txn.active /\ txn.stage \in {"done", "raised"}
    /\ LET r == atomic(DB, IF txn.stage = "done" THEN Done(txn.db) ELSE Raised(txn.db, txn.exc))
           turn == [outcome |-> IF ~r.ok THEN "errors"
                                ELSE IF txn.data.id \in DOMAIN receipts THEN "updated"
                                ELSE "created",
                    id |-> txn.data.id]
       IN  /\ Commit(r.db)
           /\ sync' = [sync EXCEPT
                  !.n = @ + 1,
                  !.created = tally(sync, turn).created,
                  !.updated = tally(sync, turn).updated,
                  !.errors = tally(sync, turn).errors]
           /\ last' = [data |-> txn.data, outcome |-> turn.outcome, error |-> r.exc,
                       detail |-> {}]
    /\ txn' = NoTx
    /\ UNCHANGED <<resp, rd, creating>>

\* get_changes, lines 129-136: the query for the caller's receipts changed since
\* last_sync is evaluated when the serializer starts iterating.
ReadRows(u, last_sync) ==
    /\ ~rd.active
    /\ LET db == visible(DB, txn)
           ids == changes(db, u, last_sync)
       IN  /\ ids # {}
           /\ rd' = [active |-> TRUE, user |-> u,
                     rows |-> [id \in ids |-> db.receipts[id]],
                     todo |-> ids, obs |-> <<>>,
                     during |-> {id \in ids : dirty(DB, txn, id)}]
    /\ UNCHANGED <<businesses, receipts, items, now, hist, sync, last, resp, txn, creating>>

\* The nested items field of one receipt: instance.items.all(), a query of its
\* own (nothing is prefetched).
ReadItems(id) ==
    /\ rd.active
    /\ id \in rd.todo
    /\ rd' = [rd EXCEPT !.todo = @ \ {id},
                        !.obs = Put(@, id, visible(DB, txn).items[id]),
                        !.during = IF dirty(DB, txn, id) THEN @ \cup {id} ELSE @]
    /\ UNCHANGED <<businesses, receipts, items, now, hist, sync, last, resp, txn, creating>>

\* return Response(serializer.data)
ReadEnd ==
    /\ rd.active
    /\ rd.todo = {}
    /\ resp' = [Response("get_changes", rd.user, 200) EXCEPT !.ids = DOMAIN rd.obs]
    /\ rd' = NoRead
    /\ UNCHANGED <<businesses, receipts, items, now, hist, sync, last, txn, creating>>

\* RetrieveModelMixin.retrieve: instance = self.get_object() raises in
\* get_queryset() before anything is read, whoever calls and whatever the pk;
\* the request is answered 500.
Retrieve ==
    /\ \A u \in Users, pk \in IDs : get_object(visible(DB, txn), u, pk).status = 500
    /\ resp' = Response("retrieve", "any", 500)
    /\ UNCHANGED <<businesses, receipts, items, now, hist, sync, last, txn, rd, creating>>

\* UpdateModelMixin.update / partial_update: instance = self.get_object() raises
\* in get_queryset() before the serializer is built, so serializer.update (which
\* runs under no transaction) is not reached; the request is answered 500.
Update ==
    /\ \A u \in Users, pk \in IDs : get_object(DB, u, pk).status = 500
    /\ resp' = Response("update", "any", 500)
    /\ UNCHANGED <<businesses, receipts, items, now, hist, sync, last, txn, rd, creating>>

\* The receipts stored before the sync: the two-line receipt, consistent.
TxnPayloads == { Receipt2(b, 2500, 2750) : b \in BizIds }

\* The records of the sync: nothing but the id; items only; a new tax rate with
\* an empty item list.  A record whose id is not stored fails validation.
TxnRecords ==
    { [b EXCEPT !.id = i] :
        b \in { Empty,
                [Empty EXCEPT !.items = ItemList(TwoItems)],
                [Empty EXCEPT !.tax_rate = 2000, !.items = ItemList(<<>>)] },
        i \in IDs }

\* A write may start while the clock leaves a stamp for it, a turn while the
\* batch has an element after it.
MayWrite == now < MaxTime
MayTurn == sync.n + 1 < MaxBatch

NextTxn ==
    \/ \E u \in Users : ~sync.active /\ AdminAddBusiness(u)
    \/ \E data \in TxnPayloads : MayWrite /\ Create(data)
    \/ \E u \in Users : BulkSyncBegin(u, TRUE)
    \/ \E data \in TxnRecords : MayTurn /\ TurnWithoutTxn(data)
    \/ \E data \in TxnRecords : MayTurn /\ MayWrite /\ TxnBegin(data)
    \/ TxnSave
    \/ TxnDeleteItems
    \/ TxnCreateItem
    \/ TxnEnd
    \/ ~txn.active /\ BulkSyncEnd
    \/ Retrieve
    \/ Update
    \/ \E u \in Users : ReadRows(u, 0)
    \/ \E id \in IDs : ReadItems(id)
    \/ ReadEnd

SpecTxn == Init /\ [][NextTxn]_vars

\* ------------------------------------------------- create against create
\* CreateModelMixin.create taken in its two parts, for requests on two
\* connections: serializer.is_valid(raise_exception=True) reads the committed
\* tables; perform_create then inserts under its own transaction.

\* serializer.is_valid(raise_exception=True): a ValidationError is answered 400.
CreateValidate(s, data) ==
    /\ Idle
    /\ creating[s].stage = "idle"
    /\ LET errs == is_valid_errors(DB, data, 0, FALSE)
       IN  IF errs # {}
           THEN /\ resp' = [Response("create", "any", 400) EXCEPT !.detail = errs, !.data = data]
                /\ UNCHANGED creating
           ELSE /\ creating' = [creating EXCEPT ![s] = [stage |-> "valid", data |-> data]]
                /\ UNCHANGED resp
    /\ UNCHANGED <<businesses, receipts, items, now, hist, sync, last, txn, rd>>

\* perform_create: serializer.save(sync_status=SYNCED) under transaction.atomic;
\* an IntegrityError of the insert is not handled and the request is answered 500.
CreateInsert(s) ==
    /\ Idle
    /\ creating[s].stage = "valid"
    /\ fresh_id(DB) # 0
    /\ LET data == creating[s].data
           id == fresh_id(DB)
           t == atomic(DB, serializer_create(DB, id, data, data.business, SYNCED))
       IN  /\ Commit(t.db)
           /\ resp' = [Response("create", "any", IF t.ok THEN 201 ELSE 500)
                         EXCEPT !.ids = IF t.ok THEN {id} ELSE {}, !.data = data]
    /\ creating' = [creating EXCEPT ![s] = NoCreate]
    /\ UNCHANGED <<sync, last, txn, rd>>

NextRace ==
    \/ \E u \in Users : AdminAddBusiness(u)
    \/ \E s \in Slots, data \in CreatePayloads : CreateValidate(s, data)
    \/ \E s \in Slots : CreateInsert(s)

SpecRace == Init /\ [][NextRace]_vars

\* ------------------------------------------ the views of ReceiptViewSet
\* The routed views taken one request at a time, with the caller and the
\* primary key or watermark each request carries (kept in the response as user
\* and arg), beside create and the two model methods.

\* The values of ?last_sync: a stamp, or Absent when the parameter is missing.
Watermarks == 0..MaxTime

\* The receipts created before the views are called: the consistent two-line
\* receipt under number 1 in either business, and under number 2 in business 1.
ViewPayloads == TxnPayloads \cup { [Receipt2(1, 2500, 2750) EXCEPT !.receipt_number = 2] }

\* The bodies of a single update: a new tax rate; nothing.
UpdatePayloads == { [Empty EXCEPT !.tax_rate = 2000], Empty }

\* ListModelMixin.list: the page of get_queryset().
ListReceipts(u) ==
    /\ ~sync.active
    /\ LET q == get_queryset(DB, u)
       IN  resp' = [Response("list", u, IF q.ok THEN 200 ELSE 500) EXCEPT !.ids = q.ids]
    /\ UNCHANGED <<businesses, receipts, items, now, hist, sync, last, txn, rd, creating>>

\* RetrieveModelMixin.retrieve: the serialized get_object().
RetrieveReceipt(u, pk) ==
    /\ ~sync.active
    /\ LET o == get_object(DB, u, pk)
       IN  resp' = [Response("retrieve", u, o.status) EXCEPT
                       !.arg = pk, !.ids = IF o.status = 200 THEN {pk} ELSE {}]
    /\ UNCHANGED <<businesses, receipts, items, now, hist, sync, last, txn, rd, creating>>

\* UpdateModelMixin.partial_update: get_object(), the serializer with
\* partial=True, serializer.save() with no keyword argument (perform_update).
UpdateReceipt(u, pk, data) ==
    /\ Idle
    /\ LET o == get_object(DB, u, pk)
           errs == is_valid_errors(DB, data, pk, TRUE)
           row == receipts[pk]
           saved == serializer_update(DB, pk, data,
                        IF data.business # NoBusiness THEN data.business ELSE row.business,
                        IF data.sync_status # "absent" THEN data.sync_status ELSE row.sync_status)
       IN  IF o.status # 200
           THEN /\ resp' = [Response("update", u, o.status) EXCEPT
                               !.arg = pk, !.data = [data EXCEPT !.id = pk]]
                /\ UNCHANGED <<businesses, receipts, items, now, hist>>
           ELSE IF errs # {}
           THEN /\ resp' = [Response("update", u, 400) EXCEPT
                               !.arg = pk, !.detail = errs, !.data = [data EXCEPT !.id = pk]]
                /\ UNCHANGED <<businesses, receipts, items, now, hist>>
           ELSE /\ Commit([saved.db EXCEPT !.now = @ + 1])
                /\ resp' = [Response("update", u, IF saved.ok THEN 200 ELSE 500) EXCEPT
                               !.arg = pk, !.data = [data EXCEPT !.id = pk]]
    /\ UNCHANGED <<sync, last, txn, rd, creating>>

\* soft_delete_receipt: receipt = self.get_object(); receipt.soft_delete()
SoftDeleteReceipt(u, pk) ==
    /\ Idle
    /\ LET o == get_object(DB, u, pk)
       IN  IF o.status # 200
           THEN /\ resp' = [Response("soft_delete_receipt", u, o.status) EXCEPT !.arg = pk]
                /\ UNCHANGED <<businesses, receipts, items, now, hist>>
           ELSE /\ Commit(soft_delete(DB, pk))
                /\ resp' = [Response("soft_delete_receipt", u, 200) EXCEPT !.arg = pk]
    /\ UNCHANGED <<sync, last, txn, rd, creating>>

\* get_changes: 400 without last_sync; else the serialized changes queryset.
GetChanges(u, last_sync) ==
    /\ ~sync.active
    /\ LET r == get_changes(DB, u, last_sync)
       IN  resp' = [Response("get_changes", u, r.status) EXCEPT
                       !.arg = last_sync, !.ids = r.ids]
    /\ UNCHANGED <<businesses, receipts, items, now, hist, sync, last, txn, rd, creating>>

\* The model method, called on a stored receipt by code that holds the
\* instance.
MarkAsPaid(id) ==
    /\ Idle
    /\ id \in DOMAIN receipts
    /\ Commit(mark_as_paid(DB, id))
    /\ resp' = [Response("mark_as_paid", "none", 0) EXCEPT !.ids = {id}]
    /\ UNCHANGED <<sync, last, txn, rd, creating>>

NextViews ==
    \/ \E u \in Users : AdminAddBusiness(u)
    \/ \E data \in ViewPayloads : Create(data)
    \/ \E id \in IDs : SoftDelete(id)
    \/ \E id \in IDs : MarkAsPaid(id)
    \/ \E u \in Users : ListReceipts(u)
    \/ \E u \in Users, pk \in IDs : RetrieveReceipt(u, pk)
    \/ \E u \in Users, pk \in IDs, data \in UpdatePayloads : UpdateReceipt(u, pk, data)
    \/ \E u \in Users, pk \in IDs : SoftDeleteReceipt(u, pk)
    \/ \E u \in Users, last_sync \in Watermarks \cup {Absent} : GetChanges(u, last_sync)

SpecViews == Init /\ [][NextViews]_vars

\* ------------------------------ every operation that writes to a receipt
\* create, the single update, bulk_sync and the two model methods, served one
\* request at a time.
NextOps ==
    \/ \E u \in Users : AdminAddBusiness(u)
    \/ \E data \in TxnPayloads : Create(data)
    \/ \E id \in IDs : SoftDelete(id)
    \/ \E id \in IDs : MarkAsPaid(id)
    \/ \E u \in Users, pk \in IDs, data \in UpdatePayloads : UpdateReceipt(u, pk, data)
    \/ \E u \in Users, is_list \in BOOLEAN : BulkSyncBegin(u, is_list)
    \/ \E data \in SyncRecords : BulkSyncRecord(data)
    \/ BulkSyncEnd

SpecOps == Init /\ [][NextOps]_vars

\* ------------------------------------------- calculate_receipt_totals
\* The calculator of receipts/utils.py.  Decimal arithmetic is exact here (no
\* quantize, and the products stay far inside the context's 28 digits), so a
\* result is held as an integer number of 10^-9: a quantity (1/1000) times a
\* price (1/100) times a rate (1/10000).  PerCent is the number of 10^-9 in a
\* cent, PerProduct the number in a unit of quantity * price.
PerProduct == RateScale
PerCent == QtyScale * RateScale

\* sum(Decimal(str(item['quantity'])) * Decimal(str(item['unitPrice'])) for item in items)
RECURSIVE sum_unitPrice(_)
sum_unitPrice(its) ==
    IF its = <<>> THEN 0
    ELSE Head(its).quantity * Head(its).unitPrice + sum_unitPrice(Tail(its))

\* calculate_receipt_totals(items, tax_enabled, tax_rate, discount): an item
\* is a dict read by the keys 'quantity' and 'unitPrice', and an item without
\* the key 'unitPrice' raises KeyError.  Nothing is rounded.
calculate_receipt_totals(its, tax_enabled, tax_rate, discount) ==
    IF \E i \in 1..Len(its) : "unitPrice" \notin DOMAIN its[i]
    THEN [exc |-> "KeyError", subtotal |-> 0, taxAmount |-> 0, grandTotal |-> 0]
    ELSE LET subtotal == sum_unitPrice(its) * PerProduct
             tax_amount == IF tax_enabled THEN sum_unitPrice(its) * tax_rate ELSE 0
             grand_total == subtotal + tax_amount - discount * PerCent
         IN  [exc |-> "none", subtotal |-> subtotal, taxAmount |-> tax_amount,
              grandTotal |-> grand_total]

\* The item lists the calculator is called on, in the client's shape (key
\* unitPrice): none; 1 x 0.05; 0.5 x 0.03; 2 x 0.10 and 1 x 0.05; and the last
\* one in the shape of the serializer (key unit_price).
TotalsItems ==
    { <<>>,
      << [quantity |-> 1 * QtyScale, unitPrice |-> 5] >>,
      << [quantity |-> QtyScale \div 2, unitPrice |-> 3] >>,
      << [quantity |-> 2 * QtyScale, unitPrice |-> 10], [quantity |-> 1 * QtyScale, unitPrice |-> 5] >>,
      << [quantity |-> 2 * QtyScale, unit_price |-> 10], [quantity |-> 1 * QtyScale, unit_price |-> 5] >> }

\* Tax rates 0, 0.10, 0.125 and 1; discounts 0.00 to 0.05.
TotalsRates == {0, 1000, 1250, RateScale}
TotalsDiscounts == 0..5

\* A call of the calculator: the response keeps the arguments and the result.
CalculateTotals(its, tax_enabled, tax_rate, discount) ==
    /\ resp' = [Response("calculate_receipt_totals", "none", 0) EXCEPT
                   !.arg = [items |-> its, tax_enabled |-> tax_enabled,
                            tax_rate |-> tax_rate, discount |-> discount],
                   !.data = calculate_receipt_totals(its, tax_enabled, tax_rate, discount)]
    /\ UNCHANGED <<businesses, receipts, items, now, hist, sync, last, txn, rd, creating>>

NextTotals ==
    \E its \in TotalsItems, tax_enabled \in BOOLEAN, tax_rate \in TotalsRates,
       discount \in TotalsDiscounts : CalculateTotals(its, tax_enabled, tax_rate, discount)

SpecTotals == Init /\ [][NextTotals]_vars

\* ------------------------------------------------------ BusinessViewSet
\* User.is_staff: B is a staff account, A is not.
is_staff(u) == u = "B"

\* The fields of the Business model (business/models.py).
BusinessModelFields ==
    {"id", "owner", "name", "description", "address_one", "address_two", "phone", "email",
     "registration_number", "logo_url", "currency", "tax_rate", "tax_enabled",
     "selected_template_id", "onboarding_complete", "created_at", "updated_at", "motto",
     "signature_type", "brand_color_one", "brand_color_two", "signature_text",
     "signature_url", "server_id", "sync_status"}

\* Meta.fields of the serializers of business/serializers.py that the views
\* below use.
MetaFields(cls) ==
    CASE cls = "BusinessCreateSerializer" ->
            {"name", "description", "address_one", "address_two", "phone", "email",
             "registration_number", "logo", "currency", "tax_rate", "tax_enabled",
             "selected_template_id", "motto", "signature"}
      [] cls = "BusinessUpdateSerializer" ->
            {"name", "description", "address_one", "address_two", "phone", "email",
             "registration_number", "logo", "currency", "tax_rate", "tax_enabled",
             "selected_template_id", "onboarding_complete", "motto", "signature"}
      [] cls = "BusinessSyncSerializer" -> {"id", "server_id", "sync_status", "updated_at"}

\* get_serializer_class(): the serializer of an action.  manage_my_business
\* takes BusinessUpdateSerializer for every method, POST included.
get_serializer_class(action) ==
    CASE action = "create" -> "BusinessCreateSerializer"
      [] action \in {"update", "partial_update", "manage_my_business"} -> "BusinessUpdateSerializer"
      [] action = "sync" -> "BusinessSyncSerializer"

\* A serializer whose Meta.fields are all taken as known.
fields_all_known(cls) == FALSE

\* ModelSerializer.get_fields(), reached from is_valid() and from .data: a name
\* in Meta.fields that is neither declared on the serializer nor a field or an
\* attribute of the model raises ImproperlyConfigured (build_unknown_field).
\* Business has logo_url and signature_type/_text/_url, no logo or signature.
improperly_configured(cls) == MetaFields(cls) \ BusinessModelFields # {}

\* BusinessViewSet.get_queryset(): every business for a staff caller, the
\* caller's own otherwise.
business_get_queryset(db, u) ==
    IF is_staff(u) THEN DOMAIN db.businesses
    ELSE {b \in DOMAIN db.businesses : db.businesses[b].owner = u}

\* QuerySet.first() on an unordered queryset: the row with the least pk.
queryset_first(q) == IF q = {} THEN NoBusiness ELSE CHOOSE b \in q : \A c \in q : b <= c

\* Model.full_clean() in Business.save(): validate_unique() raises
\* ValidationError when another row has the owner (OneToOneField is unique).
full_clean_fails(db, id, row) ==
    \E b \in DOMAIN db.businesses : b # id /\ db.businesses[b].owner = row.owner

\* The business table without the unique index on owner_id.
business_no_unique_owner(db, id, row) == FALSE

\* The table's constraint on writing row as business id: owner_id is unique.
business_integrity_error(db, id, row) ==
    \E b \in DOMAIN db.businesses : b # id /\ db.businesses[b].owner = row.owner

\* The INSERT or UPDATE that Business.save() issues after full_clean().
business_write(db, id, row) ==
    IF business_integrity_error(db, id, row) THEN Raised(db, "IntegrityError")
    ELSE Done([db EXCEPT !.businesses = Put(@, id, row)])

\* Business.save(): self.full_clean(); super().save()
business_save(db, id, row) ==
    IF full_clean_fails(db, id, row) THEN Raised(db, "ValidationError")
    ELSE business_write(db, id, row)

\* uuid.uuid4(), the default of Business.id: the least unused id stands for it.
fresh_business(db) ==
    IF BizIds \subseteq DOMAIN db.businesses THEN NoBusiness
    ELSE CHOOSE i \in BizIds \ DOMAIN db.businesses :
            \A j \in BizIds \ DOMAIN db.businesses : i <= j

\* The row Business(**validated_data, owner=...) makes: sync_status defaults to
\* PENDING, server_id to null.
new_business(u, name) == [owner |-> u, name |-> name, sync_status |-> PENDING, server_id |-> Null]

\* BusinessUpdateSerializer.update: a submitted sync-trigger field (name stands
\* for them) that differs from the stored one demotes a synced business to
\* pending; then the submitted attributes are set.
business_update(row, data) ==
    LET needs_sync == data.name # "absent" /\ data.name # row.name
    IN  [row EXCEPT
            !.name = IF data.name # "absent" THEN data.name ELSE @,
            !.sync_status = IF needs_sync /\ @ = SYNCED THEN PENDING ELSE @]

\* manage_my_business, PATCH: the first row of get_queryset(); 404 without
\* one; the serializer with partial=True; is_valid(); save().
my_business_patch(db, u, data) ==
    LET b == queryset_first(business_get_queryset(db, u))
        saved == business_save(db, b, business_update(db.businesses[b], data))
    IN  IF b = NoBusiness THEN [status |-> 404, db |-> db]
        ELSE IF improperly_configured(get_serializer_class("manage_my_business"))
        THEN [status |-> 500, db |-> db]
        ELSE [status |-> IF saved.ok THEN 200 ELSE 500, db |-> saved.db]

\* valid_transitions of validate_sync_status.
valid_transitions(current) ==
    CASE current = PENDING -> {SYNCED, ERROR}
      [] current = SYNCED -> {PENDING, ERROR, DELETED}
      [] current = ERROR -> {PENDING, SYNCED}
      [] current = DELETED -> {}

\* validate_sync_status that takes the current status as a valid target.
validate_sync_status_reassert(row, value) == value \notin valid_transitions(row.sync_status) \cup {row.sync_status}

\* BusinessSyncSerializer.validate_sync_status(value), run when the payload has
\* the key sync_status: TRUE when it raises.
validate_sync_status(row, value) == value \notin valid_transitions(row.sync_status)

\* BusinessSyncSerializer.validate(attrs): the status and the server_id the
\* row would have; synced with a falsy server_id (none, null or 0) raises.
sync_validate(row, data) ==
    LET sync_status == IF data.sync_status # "absent" THEN data.sync_status ELSE row.sync_status
        server_id == Get(data.server_id, row.server_id)
    IN  sync_status = SYNCED /\ server_id = Null

\* is_valid() of BusinessSyncSerializer with partial=True: the field
\* validators first, validate() only when none of them failed.
sync_errors(row, data) ==
    IF data.sync_status # "absent" /\ validate_sync_status(row, data.sync_status)
    THEN {"sync_status"}
    ELSE IF sync_validate(row, data) THEN {"server_id"} ELSE {}

\* sync: get_object() (404 outside get_queryset()), the serializer with
\* partial=True, is_valid(raise_exception=True), save().
business_sync(db, u, pk, data) ==
    LET row == db.businesses[pk]
        errs == sync_errors(row, data)
        saved == business_save(db, pk,
                    [row EXCEPT
                        !.sync_status = IF data.sync_status # "absent" THEN data.sync_status ELSE @,
                        !.server_id = Get(data.server_id, @)])
    IN  IF pk \notin business_get_queryset(db, u) THEN [status |-> 404, db |-> db, detail |-> {}]
        ELSE IF improperly_configured(get_serializer_class("sync"))
        THEN [status |-> 500, db |-> db, detail |-> {}]
        ELSE IF errs # {} THEN [status |-> 400, db |-> db, detail |-> errs]
        ELSE [status |-> IF saved.ok THEN 200 ELSE 500, db |-> saved.db, detail |-> {}]

\* A request that adds a business, in flight on a connection: who asks, by
\* which route, and how far it has come.
Adding(u, route, stage) == [stage |-> stage, data |-> Empty, user |-> u, route |-> route]

\* The routes that add a Business row: the admin site's add form, POST on
\* 'me' (manage_my_business) and POST on the collection (create).
Routes == {"admin", "manage_my_business", "create"}

\* The bodies of a PATCH on 'me': a new name, the stored name, nothing.
PatchBodies == { [name |-> n] : n \in {"new", "old", "absent"} }

\* The bodies of a sync request: any status or none, with a server_id (7), an
\* explicit null, or no server_id.
SyncRequests ==
    [sync_status : {"absent", PENDING, SYNCED, ERROR, DELETED}, server_id : {Absent, Null, 7}]

\* The first half of a request that adds a business, up to its look at the
\* table.  admin: the form's validate_unique().  manage_my_business: 400 when
\* get_queryset().first() is a row.  create: is_valid(), which builds the
\* fields of BusinessCreateSerializer before validate() looks for a row of the
\* caller.
AddBusinessCheck(s, u, route) ==
    /\ ~sync.active
    /\ creating[s].stage = "idle"
    /\ LET refused ==
              CASE route = "admin" -> IF user_business(DB, u) # NoBusiness THEN 400 ELSE 0
                [] route = "manage_my_business" ->
                      IF queryset_first(business_get_queryset(DB, u)) # NoBusiness THEN 400 ELSE 0
                [] route = "create" ->
                      IF improperly_configured(get_serializer_class("create")) THEN 500
                      ELSE IF user_business(DB, u) # NoBusiness THEN 400 ELSE 0
       IN  IF refused # 0
           THEN /\ resp' = [Response(route, u, refused) EXCEPT !.arg = "POST"]
                /\ UNCHANGED creating
           ELSE /\ creating' = [creating EXCEPT ![s] = Adding(u, route, "checked")]
                /\ UNCHANGED resp
    /\ UNCHANGED <<businesses, receipts, items, now, hist, sync, last, txn, rd>>

\* The request goes on to save: manage_my_business first calls is_valid(),
\* which builds the fields of BusinessUpdateSerializer; then, on every route,
\* Business.save() runs full_clean(), whose validate_unique() reads the table.
AddBusinessClean(s) ==
    /\ ~sync.active
    /\ creating[s].stage = "checked"
    /\ LET u == creating[s].user
           route == creating[s].route
           raised ==
              IF route = "manage_my_business"
                 /\ improperly_configured(get_serializer_class("manage_my_business"))
              THEN "ImproperlyConfigured"
              ELSE IF full_clean_fails(DB, fresh_business(DB), new_business(u, "old"))
              THEN "ValidationError"
              ELSE "none"
       IN  IF raised # "none"
           THEN /\ resp' = [Response(route, u, 500) EXCEPT !.arg = "POST", !.detail = {raised}]
                /\ creating' = [creating EXCEPT ![s] = NoCreate]
           ELSE /\ creating' = [creating EXCEPT ![s] = Adding(u, route, "cleaned")]
                /\ UNCHANGED resp
    /\ UNCHANGED <<businesses, receipts, items, now, hist, sync, last, txn, rd>>

\* super().save(): the INSERT, which the unique index on owner_id may refuse.
AddBusinessInsert(s) ==
    /\ ~sync.active
    /\ creating[s].stage = "cleaned"
    /\ LET u == creating[s].user
           route == creating[s].route
           saved == business_write(DB, fresh_business(DB), new_business(u, "old"))
       IN  /\ businesses' = saved.db.businesses
           /\ resp' = [Response(route, u, IF saved.ok THEN 201 ELSE 500) EXCEPT
                          !.arg = "POST", !.detail = {saved.exc}]
    /\ creating' = [creating EXCEPT ![s] = NoCreate]
    /\ UNCHANGED <<receipts, items, now, hist, sync, last, txn, rd>>

\* PATCH on 'me'.
MyBusinessPatch(u, data) ==
    /\ ~sync.active
    /\ LET r == my_business_patch(DB, u, data)
       IN  /\ businesses' = r.db.businesses
           /\ resp' = [Response("manage_my_business", u, r.status) EXCEPT
                          !.arg = "PATCH", !.data = data]
    /\ UNCHANGED <<receipts, items, now, hist, sync, last, txn, rd, creating>>

\* POST on a business's sync route.
BusinessSync(u, pk, data) ==
    /\ ~sync.active
    /\ LET r == business_sync(DB, u, pk, data)
       IN  /\ businesses' = r.db.businesses
           /\ resp' = [Response("sync", u, r.status) EXCEPT
                          !.arg = pk, !.data = data, !.detail = r.detail]
    /\ UNCHANGED <<receipts, items, now, hist, sync, last, txn, rd, creating>>

\* The requests that add a business, two of them at a time, and the PATCH on
\* 'me'.
NextBusiness ==
    \/ \E s \in Slots, u \in Users, route \in Routes : AddBusinessCheck(s, u, route)
    \/ \E s \in Slots : AddBusinessClean(s)
    \/ \E s \in Slots : AddBusinessInsert(s)
    \/ \E u \in Users, data \in PatchBodies : MyBusinessPatch(u, data)

SpecBusiness == Init /\ [][NextBusiness]_vars

\* The sync route and the PATCH on 'me', on businesses added one at a time.
NextBusinessSync ==
    \/ \E u \in Users : AdminAddBusiness(u)
    \/ \E u \in Users, data \in PatchBodies : MyBusinessPatch(u, data)
    \/ \E u \in Users, pk \in BizIds, data \in SyncRequests : BusinessSync(u, pk, data)

SpecBusinessSync == Init /\ [][NextBusinessSync]_vars

\* ===================================================================== claims
\* The owner of the business a stored receipt belongs to.
owner(r) == businesses[receipts[r].business].owner

\* The ReceiptItem rows a list of submitted items stands for.
rows_of(its) == [i \in 1..Len(its) |-> item_row(its[i])]

\* A turn of the bulk_sync loop has just ended, on the record in last.
AfterTurn == sync.active /\ last.outcome # "none"

\* A well-formed record for business b under client id i: the two-line receipt
\* with consistent totals, receipt number i.
WellFormed(b, i) == [Receipt2(b, 2500, 2750) EXCEPT !.id = i, !.receipt_number = i]

\* The batches of well-formed records with distinct ids, none of them stored,
\* that caller u (owning a business) may send.
FreshBatches(u) ==
    LET b == user_business(DB, u)
        free == IDs \ DOMAIN receipts
    IN  IF b = NoBusiness THEN {}
        ELSE { <<WellFormed(b, i)>> : i \in free }
             \cup { <<WellFormed(b, p[1]), WellFormed(b, p[2])>> :
                        p \in { q \in free \X free : q[1] # q[2] } }

\* C1: replaying a bulk-sync batch is idempotent.  For a batch of N well-formed
\* records with distinct client ids that are not stored yet, the second of two
\* identical calls by the same caller reports created = 0 and updated = N, and
\* stores as many receipts as the first call left.
C1_ReplayReportsUpdated ==
    \A u \in Users : \A batch \in FreshBatches(u) :
        LET first == bulk_sync(DB, u, batch)
            second == bulk_sync(first.db, u, batch)
        IN  /\ second.status = 200
            /\ second.report.created = 0
            /\ second.report.updated = Len(batch)
            /\ Cardinality(DOMAIN second.db.receipts) = Cardinality(DOMAIN first.db.receipts)

\* C2: a bulk sync by a caller changes no receipt whose business another user
\* owns: its row (fields, business, sync_status) and its items stay as they were.
C2_OthersUntouched ==
    [][sync.active =>
        \A r \in DOMAIN receipts :
            owner(r) # sync.user =>
                /\ r \in DOMAIN receipts'
                /\ receipts'[r] = receipts[r]
                /\ items'[r] = items[r]]_vars

\* C3: a bulk sync on a list always answers with a report, and the report
\* accounts for every record: created + updated + len(errors) = len(batch).
C3_EveryRecordCounted ==
    (resp.op = "bulk_sync" /\ resp.status \notin {0, 400}) =>
        /\ resp.status = 200
        /\ resp.created + resp.updated + Len(resp.errors) = resp.n

\* C4: a bulk-sync record that fails (validation, or an exception at any step of
\* its transaction) leaves the receipt table and the item table exactly as they
\* were, and its id is appended to the report's errors.
C4_FailedRecordLeavesNoTrace ==
    [][(sync.active /\ sync'.active /\ sync'.n = sync.n + 1 /\ last'.outcome = "errors") =>
        /\ receipts' = receipts
        /\ items' = items
        /\ sync'.errors = Append(sync.errors, last'.data.id)]_vars

\* C4 witness: a record failed while its items were being recreated, after the
\* row was saved and the old items deleted inside the transaction; the stored
\* receipt still has its items.
C4_Witness ==
    /\ AfterTurn
    /\ last.outcome = "errors"
    /\ last.error = "TypeError"
    /\ last.data.id \in DOMAIN receipts
    /\ items[last.data.id] # <<>>
    /\ sync.errors # <<>>

\* C5: a read concurrent with a bulk-sync record's transaction never returns an
\* intermediate state of the receipt.  Every row get_changes returns is a
\* committed version of the receipt, and the items it returns with it are those of
\* that version or of a later committed one: never the emptied item table of an
\* open block, never the row an open block saved.
C5_ReadsCommittedVersions ==
    /\ \A id \in DOMAIN rd.rows :
          \E i \in 1..Len(hist[id]) : rd.rows[id] = hist[id][i].row
    /\ \A id \in DOMAIN rd.obs :
          \E i \in 1..Len(hist[id]) : \E j \in i..Len(hist[id]) :
              /\ rd.rows[id] = hist[id][i].row
              /\ rd.obs[id] = hist[id][j].items

\* C5 witness: get_changes read the items of a receipt while the open block had
\* saved the row and deleted the items, and returned the two stored lines.
C5_Witness ==
    /\ rd.active
    /\ txn.active
    /\ txn.id \in rd.during
    /\ txn.id \in DOMAIN rd.obs
    /\ txn.db.items[txn.id] = <<>>
    /\ txn.db.receipts[txn.id] # receipts[txn.id]
    /\ rd.obs[txn.id] = rows_of(TwoItems)

C7_DeletedIsTerminal ==
    [][\A r \in DOMAIN receipts :
          receipts[r].sync_status = DELETED =>
              r \in DOMAIN receipts' /\ receipts'[r].sync_status = DELETED]_vars

\* C8: every receipt whose sync_status is synced has a server_id.
C8_SyncedHasServerId ==
    \A r \in DOMAIN receipts :
        receipts[r].sync_status = SYNCED => receipts[r].server_id # Null

\* A create request with the two-line receipt and this grand total passes field
\* validation and the uniqueness validator in the state it arrives in.
Reaches(data) ==
    /\ data.business \in DOMAIN businesses
    /\ ~unique_together_fails(DB, data, 0)

\* C9 as claimed: the two-line receipt (subtotal 25.00, rate 0.10, no discount)
\* submitted with grand_total 27.49 is rejected with an error on grand_total.
C9_OneCentOffRejected ==
    (resp.op = "create" /\ \E b \in BizIds : resp.data = Receipt2(b, 2500, 2749)
        /\ resp.detail \cap {"business", "non_field_errors"} = {}) =>
        resp.status = 400 /\ resp.detail = {"grand_total"}

\* C9 amended: for that receipt validation expects subtotal 25.00, tax 2.50 and
\* grand total 27.50; a submission two cents away (27.48) is rejected with an
\* error on grand_total and stores nothing, and one that is one cent away (27.49)
\* or exact is accepted and stored.
C9_BeyondOneCentRejected ==
    [][/\ calculated_subtotal(TwoItems) = 2500 * QtyScale
       /\ Quantize(2500 * 1000, RateScale) = 250
       /\ \A b \in BizIds :
            (resp'.op = "create" /\ Reaches(Receipt2(b, 2500, 2750))) =>
                /\ resp'.data = Receipt2(b, 2500, 2748) =>
                      /\ resp'.status = 400
                      /\ resp'.detail = {"grand_total"}
                      /\ receipts' = receipts /\ items' = items
                /\ resp'.data \in {Receipt2(b, 2500, 2749), Receipt2(b, 2500, 2750)} =>
                      /\ resp'.status = 201
                      /\ \E r \in DOMAIN receipts' \ DOMAIN receipts :
                            receipts'[r].grand_total = resp'.data.grand_total]_vars

\* C9 witness: a create of the two-line receipt with grand_total 27.48 was
\* answered 400 with an error on grand_total.
C9_Witness ==
    /\ resp.op = "create"
    /\ \E b \in BizIds : resp.data = Receipt2(b, 2500, 2748)
    /\ resp.status = 400
    /\ resp.detail = {"grand_total"}

\* A record is consistent: it carries items, its subtotal is the sum of
\* quantity x unit_price over them, and its grand total is subtotal + tax - discount.
Consistent(data) ==
    /\ data.items.present
    /\ Has(data.subtotal) /\ Has(data.tax_rate) /\ Has(data.grand_total)
    /\ calculated_subtotal(data.items.list) = data.subtotal * QtyScale
    /\ data.grand_total = data.subtotal + Quantize(data.subtotal * data.tax_rate, RateScale)
                            - Get(data.discount, 0)

\* C10: a bulk-sync record whose totals are consistent with the items it
\* submits is never rejected for financial integrity.
C10_ConsistentRecordNotRejected ==
    (AfterTurn /\ Consistent(last.data)) =>
        last.detail \cap {"subtotal", "grand_total"} = {}

\* The two financial checks on a stored receipt: the grand total against
\* subtotal + tax_amount - discount, the subtotal against its stored items.
TotalsAgree(r) ==
    Abs(receipts[r].grand_total
        - (receipts[r].subtotal + receipts[r].tax_amount - receipts[r].discount)) <= Tolerance

SubtotalAgrees(r) ==
    Abs(receipts[r].subtotal * QtyScale - calculated_subtotal(items[r])) <= Tolerance * QtyScale

\* C11: in every reachable state every stored receipt has its grand total
\* within 0.01 of subtotal + tax_amount - discount and its subtotal within 0.01
\* of the sum of quantity x unit_price over its stored items.
C11_StoredTotalsConsistent ==
    \A r \in DOMAIN receipts : TotalsAgree(r) /\ SubtotalAgrees(r)

\* No two stored receipts share (business, receipt_number).
NoDuplicateNumbers ==
    \A r1 \in DOMAIN receipts : \A r2 \in DOMAIN receipts :
        (receipts[r1].business = receipts[r2].business
            /\ receipts[r1].receipt_number = receipts[r2].receipt_number) => r1 = r2

\* A stored receipt of the payload's business carries the payload's number.
NumberTaken(data) ==
    \E r \in DOMAIN receipts :
        /\ receipts[r].business = data.business
        /\ receipts[r].receipt_number = data.receipt_number

\* C12: a create whose receipt_number is taken in its business is answered 400
\* and stores nothing, with the uniqueness error when the payload is otherwise
\* well formed; a valid payload whose number is free in its business is stored,
\* whatever other businesses hold; and after every step no two receipts share
\* (business, receipt_number).
C12_NumberUniquePerBusiness ==
    [][/\ NoDuplicateNumbers'
       /\ (resp'.op = "create" /\ NumberTaken(resp'.data)) =>
             /\ resp'.status = 400
             /\ receipts' = receipts /\ items' = items
             /\ field_errors(DB, resp'.data, FALSE) = {} =>
                   resp'.detail = {"non_field_errors"}
       /\ (resp'.op = "create" /\ ~NumberTaken(resp'.data)
             /\ field_errors(DB, resp'.data, FALSE) = {}
             /\ validate(resp'.data) = "ok") =>
             /\ resp'.status = 201
             /\ \E r \in DOMAIN receipts' \ DOMAIN receipts :
                   /\ receipts'[r].business = resp'.data.business
                   /\ receipts'[r].receipt_number = resp'.data.receipt_number]_vars

\* C12 witness: a create was refused for its receipt number while the same
\* number is stored once in that business.
C12_Witness ==
    /\ resp.op = "create"
    /\ resp.status = 400
    /\ resp.detail = {"non_field_errors"}
    /\ Cardinality({r \in DOMAIN receipts :
            /\ receipts[r].business = resp.data.business
            /\ receipts[r].receipt_number = resp.data.receipt_number}) = 1

\* C13: when two requests create receipts with the same receipt_number in
\* the same business, in whatever order their validations and inserts run, at
\* most one is stored: no two stored receipts share (business, receipt_number).
C13_AtMostOneStored ==
    \A r1 \in DOMAIN receipts : \A r2 \in DOMAIN receipts :
        r1 # r2 =>
            \/ receipts[r1].business # receipts[r2].business
            \/ receipts[r1].receipt_number # receipts[r2].receipt_number

\* C13 witness: a create that had passed validation was refused by the insert
\* (500) because a request validated alongside it had stored the same number
\* in the same business meanwhile.
C13_Witness ==
    /\ resp.op = "create"
    /\ resp.status = 500
    /\ \E r \in DOMAIN receipts :
          /\ receipts[r].business = resp.data.business
          /\ receipts[r].receipt_number = resp.data.receipt_number

\* C14: an update that submits a tax_rate different from the stored one, on a
\* synced receipt of the caller that is not deleted, is carried out and leaves the
\* receipt pending when it returns.
C14_UpdateDemotesToPending ==
    [][\A pk \in DOMAIN receipts :
          (/\ resp'.op = "update" /\ resp'.arg = pk
           /\ owner(pk) = resp'.user
           /\ receipts[pk].deleted_at = Null
           /\ receipts[pk].sync_status = SYNCED
           /\ Has(resp'.data.tax_rate) /\ resp'.data.tax_rate # receipts[pk].tax_rate) =>
              /\ resp'.status = 200
              /\ receipts'[pk].tax_rate = resp'.data.tax_rate
              /\ receipts'[pk].sync_status = PENDING]_vars

\* C15: the soft-delete request of a caller on a receipt of their own that is
\* not deleted succeeds and leaves it with deleted_at set and sync_status deleted;
\* a receipt in that state is in no listing and no detail answer, and it is in
\* the change feed of its owner for every watermark below its deleted_at.
C15_SoftDeleteHidesAndFeeds ==
    /\ (resp.op = "soft_delete_receipt" /\ resp.arg \in DOMAIN receipts
           /\ owner(resp.arg) = resp.user) =>
          /\ resp.status = 200
          /\ receipts[resp.arg].deleted_at # Null
          /\ receipts[resp.arg].sync_status = DELETED
    /\ resp.op \in {"list", "retrieve"} =>
          /\ resp.status \in {200, 404}
          /\ \A r \in resp.ids : receipts[r].deleted_at = Null
    /\ (resp.op = "get_changes" /\ resp.status = 200) =>
          \A r \in DOMAIN receipts :
              (owner(r) = resp.user /\ receipts[r].sync_status = DELETED
                  /\ resp.arg < receipts[r].deleted_at) => r \in resp.ids

\* The receipts the change feed owes caller u for watermark t.
ChangedSince(u, t) ==
    {r \in DOMAIN receipts : owner(r) = u /\ receipts[r].updated_at > t}

\* C16: for every caller and watermark the change feed answers with exactly
\* the caller's receipts whose updated_at is greater than the watermark,
\* soft-deleted ones included, and writes nothing.
C16_ChangeFeedExact ==
    [][(resp'.op = "get_changes" /\ resp'.status = 200) =>
          /\ resp'.ids = ChangedSince(resp'.user, resp'.arg)
          /\ UNCHANGED <<businesses, receipts, items, now>>]_vars

\* C16 witness: a feed answer that holds a soft-deleted receipt of the caller
\* and leaves out a receipt of the caller's that did not change after the
\* watermark.
C16_Witness ==
    /\ resp.op = "get_changes"
    /\ resp.status = 200
    /\ \E r \in resp.ids : receipts[r].sync_status = DELETED
    /\ \E r \in DOMAIN receipts \ resp.ids :
          owner(r) = resp.user /\ receipts[r].updated_at <= resp.arg

\* C17: a detail lookup or a soft-delete addressed to a receipt of another
\* owner, like one addressed to an id that is not stored, is answered NotFound;
\* a listing or detail answer holds only receipts of the caller that are not
\* deleted.
C17_ForeignIsNotFound ==
    /\ (resp.op \in {"retrieve", "soft_delete_receipt"}
           /\ (resp.arg \notin DOMAIN receipts \/ owner(resp.arg) # resp.user)) =>
          resp.status = 404
    /\ resp.op \in {"list", "retrieve"} =>
          /\ resp.status # 500
          /\ \A r \in resp.ids : owner(r) = resp.user /\ receipts[r].deleted_at = Null

\* C18: a bulk-sync record that is consistent, comes from the owner of its
\* business, has a free receipt number and carries a client id X under which
\* nothing is stored, is counted as created and stored under X.
C18_ClientIdKept ==
    [][(/\ sync.active /\ sync'.active /\ sync'.n = sync.n + 1
        /\ last'.data.id \notin DOMAIN receipts
        /\ Consistent(last'.data)
        /\ user_business(DB, sync.user) = last'.data.business
        /\ ~NumberTaken(last'.data)) =>
           /\ last'.outcome = "created"
           /\ last'.data.id \in DOMAIN receipts'
           /\ receipts'[last'.data.id].receipt_number = last'.data.receipt_number]_vars

\* The merged view of a partial payload: the stored fields and items of
\* receipt r overlaid by the submitted ones.
Merged(r, data) ==
    [data EXCEPT
        !.subtotal = Get(@, receipts[r].subtotal),
        !.tax_rate = Get(@, receipts[r].tax_rate),
        !.discount = Get(@, receipts[r].discount),
        !.grand_total = Get(@, receipts[r].grand_total),
        !.items = IF @.present THEN @ ELSE ItemList(items[r])]

\* C19: a bulk-sync record for a stored receipt that nothing else stops is
\* rejected for financial integrity exactly when the stored receipt overlaid by
\* the submitted fields fails the financial checks.
C19_ValidatedOnMergedView ==
    [][(/\ sync.active /\ sync'.active /\ sync'.n = sync.n + 1
        /\ last'.data.id \in DOMAIN receipts
        /\ last'.detail \subseteq {"subtotal", "grand_total"}) =>
           (last'.detail = {} <=> validate(Merged(last'.data.id, last'.data)) = "ok")]_vars

\* C20: a receipt that a bulk-sync turn counts as created or updated is
\* synced after the turn, whatever status the record submitted and whatever
\* status the receipt had, and no later turn of the same call takes a synced
\* receipt out of synced: every counted receipt is synced when the call returns.
C20_CountedReceiptsAreSynced ==
    [][sync.active =>
          /\ (sync'.active /\ last'.outcome \in {"created", "updated"}) =>
                /\ last'.data.id \in DOMAIN receipts'
                /\ receipts'[last'.data.id].sync_status = SYNCED
          /\ \A r \in DOMAIN receipts :
                receipts[r].sync_status = SYNCED =>
                    r \in DOMAIN receipts' /\ receipts'[r].sync_status = SYNCED]_vars

\* C20 witness: a record that submitted sync_status pending was counted as
\* updated and its receipt is synced.
C20_Witness ==
    /\ AfterTurn
    /\ last.outcome = "updated"
    /\ last.data.sync_status = PENDING
    /\ receipts[last.data.id].sync_status = SYNCED

\* C21: no operation assigns a receipt's server_id.  Whatever the payloads of
\* create, update and bulk sync carry (a server_id included), and through
\* soft_delete and mark_as_paid, a receipt is stored with server_id null and
\* every step leaves the server_id of every stored receipt as it was.
C21_ServerIdNeverAssigned ==
    [][\A r \in DOMAIN receipts' :
          receipts'[r].server_id =
              IF r \in DOMAIN receipts THEN receipts[r].server_id ELSE Null]_vars

\* C21 witness: a bulk-sync record that carried server_id 7 was counted as
\* updated, and the receipt it wrote has no server_id.
C21_Witness ==
    /\ AfterTurn
    /\ last.outcome = "updated"
    /\ last.data.server_id = 7
    /\ last.data.id \in DOMAIN receipts
    /\ receipts[last.data.id].server_id = Null
    /\ receipts[last.data.id].tax_rate = last.data.tax_rate

\* C22: a receipt's business never changes after creation.  No step (a single
\* update or a bulk-sync turn, by any caller, with any payload) leaves a stored
\* receipt attached to a business other than the one it had before the step.
C22_BusinessNeverChanges ==
    [][\A r \in DOMAIN receipts :
          r \in DOMAIN receipts' => receipts'[r].business = receipts[r].business]_vars

\* Rounding half up to a whole number of d: n / d to the nearest integer, a
\* half going away from zero.
HalfUp(n, d) ==
    IF n >= 0 THEN (2 * n + d) \div (2 * d) ELSE 0 - ((2 * (0 - n) + d) \div (2 * d))

\* The reference formula of the calculator, in cents: the subtotal is the
\* exact sum (in 10^-5), the tax amount is the subtotal times the rate rounded
\* half up to the cent (0 when tax is disabled), the grand total is subtotal
\* plus that tax amount minus the discount, rounded half up to the cent.
reference_totals(its, tax_enabled, tax_rate, discount) ==
    LET price(item) == IF "unitPrice" \in DOMAIN item THEN item.unitPrice ELSE item.unit_price
        sum[i \in 0..Len(its)] ==
            IF i = 0 THEN 0 ELSE sum[i - 1] + its[i].quantity * price(its[i])
        subtotal == sum[Len(its)]
        tax_amount == IF tax_enabled THEN HalfUp(subtotal * tax_rate, PerCent) ELSE 0
    IN  [subtotal |-> subtotal,
         tax_amount |-> tax_amount,
         grand_total |-> HalfUp(subtotal + (tax_amount - discount) * QtyScale, QtyScale)]

\* C23: the totals calculator equals the reference formula.  For every item
\* list, tax flag, tax rate and discount it returns a result whose subtotal is
\* the sum of quantity x unit price, whose tax amount is subtotal x rate
\* rounded half up to 2 decimals (exactly 0.00 when tax is disabled), and whose
\* grand total is subtotal + tax amount - discount rounded half up to 2
\* decimals.
C23_CalculatorEqualsReference ==
    resp.op = "calculate_receipt_totals" =>
        LET ref == reference_totals(resp.arg.items, resp.arg.tax_enabled,
                                    resp.arg.tax_rate, resp.arg.discount)
        IN  /\ resp.data.exc = "none"
            /\ resp.data.subtotal = ref.subtotal * PerProduct
            /\ resp.data.taxAmount = ref.tax_amount * PerCent
            /\ resp.data.grandTotal = ref.grand_total * PerCent

\* C24: a change-feed call that supplies no watermark fails.  For every caller
\* and every stored state it is answered 400 (the missing-watermark error) and
\* returns no receipt: there is no default that returns everything.
C24_MissingWatermarkFails ==
    (resp.op = "get_changes" /\ resp.arg = Absent) =>
        (resp.status = 400 /\ resp.ids = {})

\* C24 witness: a caller who owns a stored receipt called the change feed
\* without a watermark and was answered 400 with no receipt.
C24_Witness ==
    /\ resp.op = "get_changes"
    /\ resp.arg = Absent
    /\ resp.status = 400
    /\ resp.ids = {}
    /\ \E r \in DOMAIN receipts : owner(r) = resp.user

\* The businesses user u owns.
owned(bs, u) == {b \in DOMAIN bs : bs[b].owner = u}

\* C25: each user owns at most one Business.  Every step leaves at most one
\* business per owner, and a request that adds a business (by the admin site's
\* form, POST on 'me' or POST on the collection) for a user who owns one when
\* it is answered is refused (400 or 500) and stores nothing, also when two
\* such requests of the same user are in flight together.
C25_OneBusinessPerUser ==
    [][/\ \A u \in Users : Cardinality(owned(businesses', u)) <= 1
       /\ \A u \in Users :
            (/\ owned(businesses, u) # {}
             /\ resp' # resp
             /\ resp'.op \in Routes
             /\ resp'.user = u)
            => (resp'.status >= 400 /\ businesses' = businesses)]_vars

\* C25 witness: of two requests of the same user that had both passed their
\* check, the second to insert was refused by the table's unique index on the
\* owner, and the user owns the one business the first request stored.
C25_Witness ==
    /\ resp.op \in Routes
    /\ resp.status = 500
    /\ resp.detail = {"IntegrityError"}
    /\ Cardinality(owned(businesses, resp.user)) = 1
    /\ \A s \in Slots : creating[s].stage = "idle"

\* What a list of items or of rows says line by line.
lines(l) == [i \in 1..Len(l) |-> [quantity |-> l[i].quantity, unit_price |-> l[i].unit_price]]

\* C26: after a successful bulk-sync upsert the receipt's items, read in
\* display order, come in the order in which the record submitted them.  A
\* record that submits two or more items and passes validation is counted as
\* created or updated, and every reading of the stored items in display order
\* gives the submitted lines in the submitted order.
C26_ItemsInSubmittedOrder ==
    (/\ AfterTurn
     /\ last.outcome # "raised"
     /\ Len(submitted_items(last.data)) >= 2
     /\ last.error # "invalid") =>
        /\ last.outcome \in {"created", "updated"}
        /\ \A read \in display_orders(items[last.data.id]) :
              lines(read) = lines(submitted_items(last.data))

ListedTransitions ==
    { <<PENDING, SYNCED>>, <<PENDING, ERROR>>, <<SYNCED, PENDING>>, <<SYNCED, ERROR>>,
      <<SYNCED, DELETED>>, <<ERROR, PENDING>>, <<ERROR, SYNCED>> }

\* The step answers a sync request on a stored business.
SyncAnswered == resp'.op = "sync" /\ resp'.arg \in DOMAIN businesses

\* The step leaves the sync_status and the server_id of business b as they were.
SyncFieldsKept(b) ==
    /\ businesses'[b].sync_status = businesses[b].sync_status
    /\ businesses'[b].server_id = businesses[b].server_id

\* C28 as claimed: the sync operation accepts a requested sync_status only
\* when (current, requested) is a listed transition; every other request that
\* names a status, re-asserting the current one included, and any request on a
\* business whose status is deleted, is rejected and leaves the business's
\* sync_status and server_id unchanged.
C28_OnlyListedTransitions ==
    [][SyncAnswered =>
          LET b == resp'.arg
              current == businesses[b].sync_status
              requested == resp'.data.sync_status
          IN  /\ (requested # "absent" /\ resp'.status = 200) =>
                     <<current, requested>> \in ListedTransitions
              /\ (\/ requested # "absent" /\ <<current, requested>> \notin ListedTransitions
                  \/ current = DELETED) =>
                     (resp'.status >= 400 /\ SyncFieldsKept(b))]_vars

\* C28 amended: the sync operation accepts a request that names a sync_status
\* only when (current, requested) is a listed transition; every other request
\* that names a sync_status, re-asserting the current one and any such request
\* on a deleted business included, is rejected and leaves sync_status and
\* server_id unchanged.  A request that names no sync_status is not checked
\* against the transitions: on a deleted business that the caller may address
\* it is accepted, keeps the status deleted and sets the server_id it carries.
C28_StatusRequestsFollowTransitions ==
    [][SyncAnswered =>
          LET b == resp'.arg
              current == businesses[b].sync_status
              requested == resp'.data.sync_status
          IN  /\ (requested # "absent" /\ resp'.status = 200) =>
                     <<current, requested>> \in ListedTransitions
              /\ (requested # "absent" /\ <<current, requested>> \notin ListedTransitions) =>
                     (resp'.status >= 400 /\ SyncFieldsKept(b))
              /\ (/\ requested = "absent"
                  /\ current = DELETED
                  /\ (is_staff(resp'.user) \/ businesses[b].owner = resp'.user)) =>
                     /\ resp'.status = 200
                     /\ businesses'[b].sync_status = DELETED
                     /\ businesses'[b].server_id =
                            IF resp'.data.server_id = Absent THEN businesses[b].server_id
                            ELSE resp'.data.server_id]_vars

\* C28 witness: a request for status pending on a business whose status is
\* deleted was refused for its sync_status, and the business is still deleted
\* with its server_id.
C28_Witness ==
    /\ resp.op = "sync"
    /\ resp.arg \in DOMAIN businesses
    /\ resp.status = 400
    /\ resp.detail = {"sync_status"}
    /\ resp.data.sync_status = PENDING
    /\ businesses[resp.arg].sync_status = DELETED
    /\ businesses[resp.arg].server_id = 7

\* C29: in every reachable state a receipt's deleted_at is set if and only if
\* its sync_status is deleted.
C29_DeletedAtIffDeleted ==
    \A r \in DOMAIN receipts :
        (receipts[r].deleted_at # Null) <=> (receipts[r].sync_status = DELETED)

\* C30: a Business whose sync_status is synced has a server_id.  Every step
\* leaves every synced business with a server_id; a sync request that would
\* leave the business synced without one (one that only clears the server_id
\* of a synced business included) is rejected and changes nothing; and a PATCH
\* on 'me' that names a new value for a sync-relevant field of a synced
\* business takes effect and leaves the business pending.
C30_SyncedBusinessHasServerId ==
    [][/\ \A b \in DOMAIN businesses' :
            businesses'[b].sync_status = SYNCED => businesses'[b].server_id # Null
       /\ SyncAnswered =>
            LET b == resp'.arg
                status == IF resp'.data.sync_status # "absent" THEN resp'.data.sync_status
                          ELSE businesses[b].sync_status
                server_id == IF resp'.data.server_id # Absent THEN resp'.data.server_id
                             ELSE businesses[b].server_id
            IN  (status = SYNCED /\ server_id = Null) =>
                    (resp'.status >= 400 /\ businesses' = businesses)
       /\ (resp'.op = "manage_my_business" /\ resp'.arg = "PATCH") =>
            LET b == queryset_first(business_get_queryset(DB, resp'.user))
            IN  (/\ b # NoBusiness
                 /\ businesses[b].sync_status = SYNCED
                 /\ resp'.data.name \notin {"absent", businesses[b].name}) =>
                    /\ businesses'[b].name = resp'.data.name
                    /\ businesses'[b].sync_status = PENDING]_vars

====
